---- MODULE Spec2Model ----
(***************************************************************************)
(* Postcode POLAR4 API: the in-memory server (server.js), the edge worker  *)
(* (worker/src/index.js) and the CSV -> SQL import script with the D1      *)
(* schema it feeds.  Strings are sequences of one-character strings so     *)
(* that normalisation, validation and parsing are computed, not assumed.   *)
(***************************************************************************)
EXTENDS Integers, Sequences, FiniteSets, TLC

\* ------------------------------------------------------------------------
\* Characters and strings
\* ------------------------------------------------------------------------
UpperSeq ==
  <<"A","B","C","D","E","F","G","H","I","J","K","L","M",
    "N","O","P","Q","R","S","T","U","V","W","X","Y","Z">>

LowerSeq ==
  <<"a","b","c","d","e","f","g","h","i","j","k","l","m",
    "n","o","p","q","r","s","t","u","v","w","x","y","z">>

DigitSeq == <<"0","1","2","3","4","5","6","7","8","9">>

Range(s) == { s[i] : i \in DOMAIN s }

UpperChars == Range(UpperSeq)
LowerChars == Range(LowerSeq)
DigitChars == Range(DigitSeq)

\* the characters of the model's inputs that the regular expression \s matches
WhitespaceChars == {" ", "\t"}

IndexOf(c, s) == CHOOSE i \in DOMAIN s : s[i] = c

\* String.prototype.toUpperCase / toLowerCase, one character
UpperChar(c) == IF c \in LowerChars THEN UpperSeq[IndexOf(c, LowerSeq)] ELSE c
LowerChar(c) == IF c \in UpperChars THEN LowerSeq[IndexOf(c, UpperSeq)] ELSE c

toUpperCase(s) == [i \in DOMAIN s |-> UpperChar(s[i])]
toLowerCase(s) == [i \in DOMAIN s |-> LowerChar(s[i])]

IsWhitespace(c) == c \in WhitespaceChars
NotWhitespace(c) == ~IsWhitespace(c)

\* s.replace(/\s+/g, '')
RemoveWhitespace(s) == SelectSeq(s, NotWhitespace)

NotDoubleQuote(c) == c # "\""

\* s.replace(/"/g, '')
RemoveDoubleQuotes(s) == SelectSeq(s, NotDoubleQuote)

RECURSIVE TrimStart(_)
TrimStart(s) ==
  IF s # <<>> /\ IsWhitespace(Head(s)) THEN TrimStart(Tail(s)) ELSE s

RECURSIVE TrimEnd(_)
TrimEnd(s) ==
  IF s # <<>> /\ IsWhitespace(s[Len(s)])
  THEN TrimEnd(SubSeq(s, 1, Len(s) - 1))
  ELSE s

\* String.prototype.trim
trim(s) == TrimEnd(TrimStart(s))

\* String.prototype.includes
includes(s, sub) ==
  \E i \in 0..(Len(s) - Len(sub)) : SubSeq(s, i + 1, i + Len(sub)) = sub

\* ------------------------------------------------------------------------
\* Normalizer / validator (identical in server.js and worker/src/index.js)
\* ------------------------------------------------------------------------
normalizePostcode(postcode) == toUpperCase(RemoveWhitespace(postcode))

\* /^[A-Z0-9]{5,8}$/.test(s)
MatchesShape(s) ==
  /\ Len(s) >= 5
  /\ Len(s) <= 8
  /\ \A i \in DOMAIN s : s[i] \in UpperChars \cup DigitChars

isValidPostcode(postcode) == MatchesShape(normalizePostcode(postcode))

\* variant of the length check with the upper limit off by one
RawLengthRejectedOffByOne(postcode) ==
  postcode = <<>> \/ Len(postcode) < 5 \/ Len(postcode) > 11

\* !postcode || postcode.length < 5 || postcode.length > 10
RawLengthRejected(postcode) ==
  postcode = <<>> \/ Len(postcode) < 5 \/ Len(postcode) > 10

\* ------------------------------------------------------------------------
\* JavaScript values held in table records and JSON bodies
\* ------------------------------------------------------------------------
Undefined == [kind |-> "undefined", text |-> <<>>]
Str(s) == [kind |-> "string", text |-> s]

RECURSIVE NatToString(_)
NatToString(n) ==
  IF n < 10 THEN <<DigitSeq[n + 1]>>
  ELSE NatToString(n \div 10) \o <<DigitSeq[(n % 10) + 1]>>

\* String(n) for an integer n, as JSON.stringify and property lookup render it
NumberToString(n) == IF n < 0 THEN <<"-">> \o NatToString(-n) ELSE NatToString(n)

Num(n) == [kind |-> "number", text |-> NumberToString(n)]

\* a || b on values that are strings or undefined: the empty string is falsy
Truthy(v) == v.kind # "undefined" /\ v.text # <<>>
Or(a, b) == IF Truthy(a) THEN a ELSE b

DigitsPrefixLen(s) ==
  IF \E i \in DOMAIN s : s[i] \notin DigitChars
  THEN (CHOOSE i \in DOMAIN s :
          /\ s[i] \notin DigitChars
          /\ \A j \in 1..(i - 1) : s[j] \in DigitChars) - 1
  ELSE Len(s)

RECURSIVE DigitsValue(_)
DigitsValue(s) ==
  IF s = <<>> THEN 0
  ELSE 10 * DigitsValue(SubSeq(s, 1, Len(s) - 1))
         + (IndexOf(s[Len(s)], DigitSeq) - 1)

\* parseInt(s, 10): leading whitespace, an optional sign, then the longest run
\* of digits; NaN when there is no digit
parseInt(s) ==
  LET t == TrimStart(s)
      signed == t # <<>> /\ t[1] \in {"+", "-"}
      body == IF signed THEN Tail(t) ELSE t
      n == DigitsPrefixLen(body)
      v == DigitsValue(SubSeq(body, 1, n))
  IN IF n = 0 THEN [nan |-> TRUE, value |-> 0]
     ELSE [nan |-> FALSE, value |-> IF signed /\ t[1] = "-" THEN -v ELSE v]

\* ------------------------------------------------------------------------
\* POLAR_DESCRIPTIONS and the response bodies
\* ------------------------------------------------------------------------
QuintileKeys == {<<"1">>, <<"2">>, <<"3">>, <<"4">>, <<"5">>}

POLAR_DESCRIPTIONS(key) ==
  CASE key = <<"1">> -> "Quintile 1 - Areas with lowest young participation in higher education (most disadvantaged)"
    [] key = <<"2">> -> "Quintile 2 - Areas with low young participation in higher education"
    [] key = <<"3">> -> "Quintile 3 - Areas with medium young participation in higher education"
    [] key = <<"4">> -> "Quintile 4 - Areas with high young participation in higher education"
    [] key = <<"5">> -> "Quintile 5 - Areas with highest young participation in higher education (most advantaged)"

\* POLAR_DESCRIPTIONS[v] || 'Unknown quintile': the property key is String(v)
PolarDescription(v) ==
  IF v.kind # "undefined" /\ v.text \in QuintileKeys
  THEN POLAR_DESCRIPTIONS(v.text)
  ELSE "Unknown quintile"

NoResponse ==
  [status |-> 0, error |-> "", message |-> "", postcode |-> <<>>,
   polar4 |-> Undefined, polar_description |-> "", searched |-> <<>>]

InvalidLength ==
  [NoResponse EXCEPT !.status = 400, !.error = "Invalid postcode format",
                     !.message = "Postcode must be 5-10 characters"]

InvalidCharacters ==
  [NoResponse EXCEPT !.status = 400, !.error = "Invalid postcode format",
                     !.message = "Postcode contains invalid characters"]

Found(display, polar4) ==
  [NoResponse EXCEPT !.status = 200, !.postcode = display, !.polar4 = polar4,
                     !.polar_description = PolarDescription(polar4)]

NotFound(postcode) ==
  [NoResponse EXCEPT !.status = 404, !.error = "Postcode not found",
                     !.searched = postcode]

\* the message of the error a failing D1 query throws
DbErrorDetail == "D1_ERROR: no such table: postcodes"

BackendFault ==
  [NoResponse EXCEPT !.status = 500, !.error = "Internal server error"]

\* ------------------------------------------------------------------------
\* Tables: the server's Map and the D1 table, keyed by canonical postcode
\* ------------------------------------------------------------------------
EmptyTable == <<>>

MapSet(m, k, v) == (k :> v) @@ m
MapHas(m, k) == k \in DOMAIN m

\* variant of the handler that reads the table before it validates
ServerLookupReadsFirst(table, postcode) ==
  LET normalized == normalizePostcode(postcode)
  IN IF RawLengthRejected(postcode)
     THEN [resp |-> InvalidLength, lookups |-> 1]
     ELSE IF ~isValidPostcode(postcode)
     THEN [resp |-> InvalidCharacters, lookups |-> 1]
     ELSE IF MapHas(table, normalized)
     THEN [resp |-> Found(table[normalized].postcode, table[normalized].polar4),
           lookups |-> 1]
     ELSE [resp |-> NotFound(postcode), lookups |-> 1]

\* app.get('/postcode/:postcode') of server.js: the response and the number
\* of reads of postcodeData the handler made
ServerLookup(table, postcode) ==
  IF RawLengthRejected(postcode)
  THEN [resp |-> InvalidLength, lookups |-> 0]
  ELSE IF ~isValidPostcode(postcode)
  THEN [resp |-> InvalidCharacters, lookups |-> 0]
  ELSE LET normalized == normalizePostcode(postcode)
       IN IF MapHas(table, normalized)
          THEN [resp |-> Found(table[normalized].postcode, table[normalized].polar4),
                lookups |-> 1]
          ELSE [resp |-> NotFound(postcode), lookups |-> 1]

\* ------------------------------------------------------------------------
\* The CSV source: a header of two column names and rows of two cells
\* ------------------------------------------------------------------------
MaxRows == 2
MaxPad == 2
MaxConns == 1

\* the header of the sample data, and one only import-data.js recognises
StandardHeader ==
  << <<"P","o","s","t","c","o","d","e">>,
     <<"P","O","L","A","R","4","_","q","u","i","n","t","i","l","e">> >>

MixedCaseHeader ==
  << <<"P","o","s","t","C","o","d","e">>, <<"P","o","l","a","r","4">> >>

RowChoices ==
  { << <<"A","B","1"," ","2","C">>, <<"2">> >>,
    << <<"a","b","1","2","c">>,     <<"5">> >>,
    << <<"A","B","-","1","2">>,     <<"1">> >>,
    << <<" ">>,                     <<"3">> >>,
    << <<>>,                        <<"4">> >>,
    << <<"Z","Z","9","9","9">>,     <<"9">> >>,
    << <<"Z","Z","9","9","9">>,     <<"x">> >> }

SeqsUpTo(S, n) == UNION { [1..k -> S] : k \in 0..n }

CsvChoices ==
  { [exists |-> TRUE, header |-> StandardHeader, rows |-> r] :
      r \in SeqsUpTo(RowChoices, MaxRows) }
  \cup { [exists |-> TRUE, header |-> MixedCaseHeader, rows |-> r] :
           r \in SeqsUpTo(RowChoices, 1) }
  \cup { [exists |-> FALSE, header |-> <<>>, rows |-> <<>>] }

\* raw :postcode parameters: a core followed by a run of up to MaxPad
\* spaces or digits
CoreChoices ==
  { <<"A","B","1","2">>,
    <<"a","b","1"," ","2","c">>,
    <<"A","B","-","1","2">>,
    <<"Z","Z","9","9","9">>,
    <<"Z","Z","9","9","\t","9","9","Z","Z">> }

PadChoices == { [i \in 1..k |-> c] : k \in 0..MaxPad, c \in {" ", "9"} }

RawInputs == { c \o p : c \in CoreChoices, p \in PadChoices }

\* ------------------------------------------------------------------------
\* server.js: loadCSVData
\* ------------------------------------------------------------------------
\* row[name] of the object csv-parser builds for a row
RowGet(header, row, name) ==
  IF \E i \in DOMAIN header : header[i] = name /\ i \in DOMAIN row
  THEN Str(row[CHOOSE i \in DOMAIN header : header[i] = name /\ i \in DOMAIN row])
  ELSE Undefined

\* row['Postcode'] || row['postcode'] || row['POSTCODE']
RowPostcode(header, row) ==
  Or(Or(RowGet(header, row, <<"P","o","s","t","c","o","d","e">>),
        RowGet(header, row, <<"p","o","s","t","c","o","d","e">>)),
     RowGet(header, row, <<"P","O","S","T","C","O","D","E">>))

\* row['POLAR4_quintile'] || row['POLAR4'] || row['polar4']
RowPolar4(header, row) ==
  Or(Or(RowGet(header, row,
          <<"P","O","L","A","R","4","_","q","u","i","n","t","i","l","e">>),
        RowGet(header, row, <<"P","O","L","A","R","4">>)),
     RowGet(header, row, <<"p","o","l","a","r","4">>))

\* variant of the 'data' handler that keeps the first record of a key
OnDataKeepsFirst(map, header, row) ==
  LET postcode == RowPostcode(header, row)
      polar4 == RowPolar4(header, row)
  IN IF Truthy(postcode) /\ ~MapHas(map, normalizePostcode(postcode.text))
     THEN MapSet(map, normalizePostcode(postcode.text),
                 [postcode |-> postcode.text, polar4 |-> polar4])
     ELSE map

\* the 'data' handler of loadCSVData, applied to the Map under construction
OnData(map, header, row) ==
  LET postcode == RowPostcode(header, row)
      polar4 == RowPolar4(header, row)
  IN IF Truthy(postcode)
     THEN MapSet(map, normalizePostcode(postcode.text),
                 [postcode |-> postcode.text, polar4 |-> polar4])
     ELSE map

\* all rows of the stream through the 'data' handler, in source order
RECURSIVE LoadRows(_, _, _)
LoadRows(map, header, rows) ==
  IF rows = <<>> THEN map
  ELSE LoadRows(OnData(map, header, Head(rows)), header, Tail(rows))

\* ------------------------------------------------------------------------
\* import-data.js (convertCsvToSql) and the D1 table of schema.sql
\* ------------------------------------------------------------------------
BATCH_SIZE == 500

\* findIndex: the first index satisfying the test, 0 when there is none
FirstIndex(S) == IF S = {} THEN 0 ELSE CHOOSE i \in S : \A j \in S : i <= j

\* line.split(',').map(h => h.trim().toLowerCase())
ScriptHeaders(header) == [i \in DOMAIN header |-> toLowerCase(trim(header[i]))]

PostcodeIndex(header) ==
  FirstIndex({ i \in DOMAIN header :
                 ScriptHeaders(header)[i] = <<"p","o","s","t","c","o","d","e">> })

Polar4Index(header) ==
  FirstIndex({ i \in DOMAIN header :
     \/ includes(ScriptHeaders(header)[i], <<"p","o","l","a","r","4">>)
     \/ ScriptHeaders(header)[i] =
          <<"p","o","l","a","r","4","_","q","u","i","n","t","i","l","e">> })

Max(a, b) == IF a >= b THEN a ELSE b

RECURSIVE SqlEscape(_)
\* s.replace(/'/g, "''")
SqlEscape(s) ==
  IF s = <<>> THEN <<>>
  ELSE (IF Head(s) = "'" THEN <<"'", "'">> ELSE <<Head(s)>>) \o SqlEscape(Tail(s))

RECURSIVE SqlUnescape(_)
\* the text value of a single-quoted SQL literal: '' stands for '
SqlUnescape(s) ==
  IF s = <<>> THEN <<>>
  ELSE IF Len(s) >= 2 /\ s[1] = "'" /\ s[2] = "'"
  THEN <<"'">> \o SqlUnescape(SubSeq(s, 3, Len(s)))
  ELSE <<Head(s)>> \o SqlUnescape(Tail(s))

\* one data line of the script: the VALUES tuple it pushes, or <<>> when the
\* line is skipped
ScriptRow(row, pi, qi) ==
  IF Len(row) < Max(pi, qi) THEN <<>>
  ELSE LET postcodeDisplay == RemoveDoubleQuotes(trim(row[pi]))
           postcode == toUpperCase(RemoveWhitespace(postcodeDisplay))
           polar4 == parseInt(RemoveDoubleQuotes(trim(row[qi])))
       IN IF postcode = <<>> \/ polar4.nan THEN <<>>
          ELSE << [postcode |-> SqlEscape(postcode),
                   postcode_display |-> SqlEscape(postcodeDisplay),
                   polar4 |-> polar4.value] >>

\* the loop over the data lines: out.stmts are the INSERT statements written
\* so far, out.batch the tuples not yet written
RECURSIVE ScriptLoop(_, _, _, _)
ScriptLoop(out, rows, pi, qi) ==
  IF rows = <<>> THEN out
  ELSE LET batch == out.batch \o ScriptRow(Head(rows), pi, qi)
       IN ScriptLoop(IF Len(batch) >= BATCH_SIZE
                     THEN [stmts |-> Append(out.stmts, batch), batch |-> <<>>]
                     ELSE [stmts |-> out.stmts, batch |-> batch],
                     Tail(rows), pi, qi)

\* convertCsvToSql: the INSERT statements of import.sql; ok is FALSE when
\* the script exits with status 1 before writing any
convertCsvToSql(file) ==
  IF ~file.exists THEN [ok |-> FALSE, stmts |-> <<>>]
  ELSE IF PostcodeIndex(file.header) = 0 \/ Polar4Index(file.header) = 0
  THEN [ok |-> FALSE, stmts |-> <<>>]
  ELSE LET out == ScriptLoop([stmts |-> <<>>, batch |-> <<>>], file.rows,
                             PostcodeIndex(file.header), Polar4Index(file.header))
       IN [ok |-> TRUE,
           stmts |-> IF out.batch # <<>> THEN Append(out.stmts, out.batch)
                     ELSE out.stmts]

\* one INSERT INTO postcodes ... VALUES statement against a table whose
\* postcode column is the PRIMARY KEY: a repeated key fails the statement
\* and none of its rows is stored
RECURSIVE InsertRows(_, _)
InsertRows(table, tuples) ==
  IF tuples = <<>> THEN [ok |-> TRUE, table |-> table]
  ELSE LET t == Head(tuples)
           key == SqlUnescape(t.postcode)
       IN IF MapHas(table, key) THEN [ok |-> FALSE, table |-> table]
          ELSE InsertRows(MapSet(table, key,
                            [postcode_display |-> SqlUnescape(t.postcode_display),
                             polar4 |-> t.polar4]),
                          Tail(tuples))

\* wrangler d1 execute --file=import.sql: the statements in order, stopping
\* at the first one that fails
RECURSIVE ExecuteSql(_, _)
ExecuteSql(table, stmts) ==
  IF stmts = <<>> THEN [ok |-> TRUE, table |-> table]
  ELSE LET r == InsertRows(table, Head(stmts))
       IN IF r.ok THEN ExecuteSql(r.table, Tail(stmts))
          ELSE [ok |-> FALSE, table |-> table]

\* ------------------------------------------------------------------------
\* worker/src/index.js: app.get('/postcode/:postcode')
\* ------------------------------------------------------------------------
\* the part of the handler before the query: a response, or none when the
\* query is to be issued
EdgeValidate(postcode) ==
  IF RawLengthRejected(postcode) THEN InvalidLength
  ELSE IF ~isValidPostcode(postcode) THEN InvalidCharacters
  ELSE NoResponse

\* the part after the query settles: fails is TRUE when first() throws
EdgeRespond(table, normalized, postcode, fails) ==
  IF fails THEN BackendFault
  ELSE IF MapHas(table, normalized)
  THEN Found(table[normalized].postcode_display, Num(table[normalized].polar4))
  ELSE NotFound(postcode)

\* ------------------------------------------------------------------------
\* State
\* ------------------------------------------------------------------------
VARIABLES
  variant,       \* "server" (server.js) or "edge" (worker + import script + D1)
  csv,           \* the CSV source file
  pc,            \* server process: "running" or "exited"
  exitCode,      \* argument of process.exit, -1 while running
  loadState,     \* loadCSVData: "idle", "streaming", "loaded", "rejected", "crashed"
  pos,           \* rows the csv stream has emitted
  data,          \* the Map local to loadCSVData
  postcodeData,  \* server.js:15
  isReady,       \* server.js:16
  server,        \* server.js:234: "unset", "listening", "closing"
  forceTimer,    \* the 10 s setTimeout of shutdown is pending
  conns,         \* open client connections of the http server
  importState,   \* "none", "converted", "imported", "failed"
  sql,           \* INSERT statements of import.sql
  d1,            \* the postcodes table of the D1 database
  query,         \* the worker's D1 query: in flight, its key, whether it threw
  req,           \* the most recent request
  resp,          \* its response, NoResponse while it is pending
  lookups        \* table reads / store queries made for it

vars ==
  <<variant, csv, pc, exitCode, loadState, pos, data, postcodeData, isReady,
    server, forceTimer, conns, importState, sql, d1, query, req, resp, lookups>>

serverVars ==
  <<pc, exitCode, loadState, pos, data, postcodeData, isReady, server,
    forceTimer, conns>>

edgeVars == <<importState, sql, d1, query>>

NoQuery == [pending |-> FALSE, key |-> <<>>, failed |-> FALSE]
NoRequest == [endpoint |-> "", postcode |-> <<>>, loading |-> FALSE]

Init ==
  /\ variant \in {"server", "edge"}
  /\ csv \in CsvChoices
  /\ pc = "running"
  /\ exitCode = -1
  /\ loadState = "idle"
  /\ pos = 0
  /\ data = EmptyTable
  /\ postcodeData = EmptyTable
  /\ isReady = FALSE
  /\ server = "unset"
  /\ forceTimer = FALSE
  /\ conns = 0
  /\ importState = "none"
  /\ sql = <<>>
  /\ d1 = EmptyTable
  /\ query = NoQuery
  /\ req = NoRequest
  /\ resp = NoResponse
  /\ lookups = 0

\* ------------------------------------------------------------------------
\* server.js: start, loadCSVData, shutdown
\* ------------------------------------------------------------------------
\* process.exit(code): the process's sockets and timers go with it
Exit(code) ==
  /\ pc' = "exited"
  /\ exitCode' = code
  /\ conns' = 0
  /\ forceTimer' = FALSE

\* start() up to the await: loadCSVData rejects at once when the file does
\* not exist, and the catch block of start exits with status 1
Start ==
  /\ variant = "server"
  /\ pc = "running"
  /\ loadState = "idle"
  /\ IF csv.exists
     THEN /\ loadState' = "streaming"
          /\ UNCHANGED <<pc, exitCode, conns, forceTimer>>
     ELSE /\ loadState' = "rejected"
          /\ Exit(1)
  /\ UNCHANGED <<pos, data, postcodeData, isReady, server>>
  /\ UNCHANGED <<variant, csv, edgeVars, req, resp, lookups>>

\* a 'data' event of the csv stream
LoadData ==
  /\ variant = "server"
  /\ pc = "running"
  /\ loadState = "streaming"
  /\ pos < Len(csv.rows)
  /\ data' = OnData(data, csv.header, csv.rows[pos + 1])
  /\ pos' = pos + 1
  /\ UNCHANGED <<pc, exitCode, loadState, postcodeData, isReady, server,
                 forceTimer, conns>>
  /\ UNCHANGED <<variant, csv, edgeVars, req, resp, lookups>>

\* variant of start that installs the table and listens without waiting for
\* the end of the stream
LoadEndEarly ==
  /\ variant = "server"
  /\ pc = "running"
  /\ loadState = "streaming"
  /\ loadState' = "loaded"
  /\ postcodeData' = data
  /\ isReady' = TRUE
  /\ server' = "listening"
  /\ UNCHANGED <<pc, exitCode, pos, data, forceTimer, conns>>
  /\ UNCHANGED <<variant, csv, importState, sql, d1, query, req, resp, lookups>>

\* the 'end' event resolves the promise; start resumes in the same turn of
\* the event loop: installs the table, sets isReady and calls app.listen
LoadEnd ==
  /\ variant = "server"
  /\ pc = "running"
  /\ loadState = "streaming"
  /\ pos = Len(csv.rows)
  /\ loadState' = "loaded"
  /\ postcodeData' = data
  /\ isReady' = TRUE
  /\ server' = "listening"
  /\ UNCHANGED <<pc, exitCode, pos, data, forceTimer, conns>>
  /\ UNCHANGED <<variant, csv, edgeVars, req, resp, lookups>>

\* variant of the catch block of start that logs the failure and serves the
\* empty table instead of exiting
LoadErrorServes ==
  /\ variant = "server"
  /\ pc = "running"
  /\ loadState = "streaming"
  /\ loadState' = "rejected"
  /\ server' = "listening"
  /\ UNCHANGED <<pc, exitCode, pos, data, postcodeData, isReady, forceTimer, conns>>
  /\ UNCHANGED <<variant, csv, importState, sql, d1, query, req, resp, lookups>>

\* an 'error' event of the csv parser rejects the promise; the catch block
\* of start exits with status 1
LoadError ==
  /\ variant = "server"
  /\ pc = "running"
  /\ loadState = "streaming"
  /\ loadState' = "rejected"
  /\ Exit(1)
  /\ UNCHANGED <<pos, data, postcodeData, isReady, server>>
  /\ UNCHANGED <<variant, csv, edgeVars, req, resp, lookups>>

\* variant of shutdown that closes the server without arming the forced
\* exit timer
ShutdownWithoutTimer ==
  IF server # "unset"
  THEN /\ server' = "closing"
       /\ UNCHANGED <<pc, exitCode, conns, forceTimer>>
  ELSE /\ Exit(0)
       /\ UNCHANGED server

\* shutdown(signal)
Shutdown ==
  IF server # "unset"
  THEN /\ server' = "closing"
       /\ forceTimer' = TRUE
       /\ UNCHANGED <<pc, exitCode, conns>>
  ELSE /\ Exit(0)
       /\ UNCHANGED server

\* an 'error' event of the file read stream has no listener (the listener
\* of loadCSVData is on the parser): the uncaughtException handler runs
\* shutdown('UNCAUGHT_EXCEPTION')
ReadError ==
  /\ variant = "server"
  /\ pc = "running"
  /\ loadState = "streaming"
  /\ loadState' = "crashed"
  /\ Shutdown
  /\ UNCHANGED <<pos, data, postcodeData, isReady>>
  /\ UNCHANGED <<variant, csv, edgeVars, req, resp, lookups>>

\* variant of the signal handler that marks the service not ready again
SignalClearsReady ==
  /\ variant = "server"
  /\ pc = "running"
  /\ loadState # "idle"
  /\ Shutdown
  /\ isReady' = FALSE
  /\ UNCHANGED <<loadState, pos, data, postcodeData>>
  /\ UNCHANGED <<variant, csv, importState, sql, d1, query, req, resp, lookups>>

\* SIGTERM or SIGINT
Signal ==
  /\ variant = "server"
  /\ pc = "running"
  /\ loadState # "idle"
  /\ Shutdown
  /\ UNCHANGED <<loadState, pos, data, postcodeData, isReady>>
  /\ UNCHANGED <<variant, csv, edgeVars, req, resp, lookups>>

\* the callback of server.close: every connection has ended
CloseCallback ==
  /\ variant = "server"
  /\ pc = "running"
  /\ server = "closing"
  /\ conns = 0
  /\ Exit(0)
  /\ UNCHANGED <<loadState, pos, data, postcodeData, isReady, server>>
  /\ UNCHANGED <<variant, csv, edgeVars, req, resp, lookups>>

\* the setTimeout callback of shutdown
ForceTimeout ==
  /\ variant = "server"
  /\ pc = "running"
  /\ forceTimer
  /\ Exit(1)
  /\ UNCHANGED <<loadState, pos, data, postcodeData, isReady, server>>
  /\ UNCHANGED <<variant, csv, edgeVars, req, resp, lookups>>

\* ------------------------------------------------------------------------
\* server.js: connections and request handlers
\* ------------------------------------------------------------------------
Endpoints == {"/postcode", "/ready", "/health", "/", "unmatched"}

Refused == [NoResponse EXCEPT !.error = "ECONNREFUSED"]
Ready == [NoResponse EXCEPT !.status = 200, !.message = "ready"]
Loading ==
  [NoResponse EXCEPT !.status = 503, !.message = "loading",
                     !.error = "Data is still loading"]
Health == [NoResponse EXCEPT !.status = 200, !.message = "ok"]
ApiInfo == [NoResponse EXCEPT !.status = 200, !.message = "Postcode POLAR4 API"]
RouteNotFound == [NoResponse EXCEPT !.status = 404, !.error = "Not Found"]

\* a client connects to the listening socket
Connect ==
  /\ variant = "server"
  /\ pc = "running"
  /\ server = "listening"
  /\ conns < MaxConns
  /\ conns' = conns + 1
  /\ UNCHANGED <<pc, exitCode, loadState, pos, data, postcodeData, isReady,
                 server, forceTimer>>
  /\ UNCHANGED <<variant, csv, edgeVars, req, resp, lookups>>

Disconnect ==
  /\ variant = "server"
  /\ pc = "running"
  /\ conns > 0
  /\ conns' = conns - 1
  /\ UNCHANGED <<pc, exitCode, loadState, pos, data, postcodeData, isReady,
                 server, forceTimer>>
  /\ UNCHANGED <<variant, csv, edgeVars, req, resp, lookups>>

\* the client sends one request at a time: none is outstanding
Idle == req = NoRequest

\* a client tries to connect before start has called app.listen: nothing
\* listens on the port and no handler runs
ConnectRefused(endpoint) ==
  /\ variant = "server"
  /\ pc = "running"
  /\ loadState = "streaming"
  /\ server = "unset"
  /\ Idle
  /\ req' = [endpoint |-> endpoint, postcode |-> <<>>, loading |-> TRUE]
  /\ resp' = Refused
  /\ lookups' = 0
  /\ UNCHANGED <<variant, csv, serverVars, edgeVars>>

\* a request on an open connection reaches the express app
Serving ==
  /\ variant = "server"
  /\ pc = "running"
  /\ server # "unset"
  /\ conns > 0
  /\ Idle

\* app.get('/postcode/:postcode')
GetPostcode(postcode) ==
  /\ Serving
  /\ req' = [endpoint |-> "/postcode", postcode |-> postcode,
             loading |-> ~isReady]
  /\ resp' = ServerLookup(postcodeData, postcode).resp
  /\ lookups' = ServerLookup(postcodeData, postcode).lookups
  /\ UNCHANGED <<variant, csv, serverVars, edgeVars>>

\* app.get('/ready')
GetReady ==
  /\ Serving
  /\ req' = [endpoint |-> "/ready", postcode |-> <<>>, loading |-> ~isReady]
  /\ resp' = IF isReady THEN Ready ELSE Loading
  /\ lookups' = 0
  /\ UNCHANGED <<variant, csv, serverVars, edgeVars>>

\* app.get('/health')
GetHealth ==
  /\ Serving
  /\ req' = [endpoint |-> "/health", postcode |-> <<>>, loading |-> ~isReady]
  /\ resp' = Health
  /\ lookups' = 0
  /\ UNCHANGED <<variant, csv, serverVars, edgeVars>>

\* app.get('/')
GetRoot ==
  /\ Serving
  /\ req' = [endpoint |-> "/", postcode |-> <<>>, loading |-> ~isReady]
  /\ resp' = ApiInfo
  /\ lookups' = 0
  /\ UNCHANGED <<variant, csv, serverVars, edgeVars>>

\* the 404 handler
GetUnmatched ==
  /\ Serving
  /\ req' = [endpoint |-> "unmatched", postcode |-> <<>>, loading |-> ~isReady]
  /\ resp' = RouteNotFound
  /\ lookups' = 0
  /\ UNCHANGED <<variant, csv, serverVars, edgeVars>>

\* ------------------------------------------------------------------------
\* Edge variant: import script, D1 import, worker handler
\* ------------------------------------------------------------------------
\* node import-data.js
ConvertCsv ==
  /\ variant = "edge"
  /\ importState = "none"
  /\ LET r == convertCsvToSql(csv)
     IN /\ sql' = r.stmts
        /\ importState' = IF r.ok THEN "converted" ELSE "failed"
  /\ UNCHANGED <<d1, query>>
  /\ UNCHANGED <<variant, csv, serverVars, req, resp, lookups>>

\* wrangler d1 execute --file=./import.sql
D1Execute ==
  /\ variant = "edge"
  /\ importState = "converted"
  /\ LET r == ExecuteSql(d1, sql)
     IN /\ d1' = r.table
        /\ importState' = IF r.ok THEN "imported" ELSE "failed"
  /\ UNCHANGED <<sql, query>>
  /\ UNCHANGED <<variant, csv, serverVars, req, resp, lookups>>

\* the worker's handler up to the await of the D1 query
EdgeGetPostcode(postcode) ==
  /\ variant = "edge"
  /\ ~query.pending
  /\ Idle
  /\ req' = [endpoint |-> "/postcode", postcode |-> postcode, loading |-> FALSE]
  /\ resp' = EdgeValidate(postcode)
  /\ IF EdgeValidate(postcode) = NoResponse
     THEN /\ query' = [pending |-> TRUE, key |-> normalizePostcode(postcode),
                      failed |-> FALSE]
          /\ lookups' = 1
     ELSE /\ query' = NoQuery
          /\ lookups' = 0
  /\ UNCHANGED <<importState, sql, d1>>
  /\ UNCHANGED <<variant, csv, serverVars>>

\* variant of the handler that issues the query a second time when the
\* first attempt throws
EdgeQueryDoneRetries(fails) ==
  /\ variant = "edge"
  /\ query.pending
  /\ IF fails /\ lookups < 2
     THEN /\ query' = [pending |-> TRUE, key |-> query.key, failed |-> FALSE]
          /\ lookups' = lookups + 1
          /\ resp' = NoResponse
     ELSE /\ resp' = EdgeRespond(d1, query.key, req.postcode, fails)
          /\ query' = [pending |-> FALSE, key |-> <<>>, failed |-> fails]
          /\ lookups' = lookups
  /\ UNCHANGED <<importState, sql, d1>>
  /\ UNCHANGED <<variant, csv, serverVars, req>>

\* the query settles: first() returns a row or null, or throws
EdgeQueryDone(fails) ==
  /\ variant = "edge"
  /\ query.pending
  /\ resp' = EdgeRespond(d1, query.key, req.postcode, fails)
  /\ query' = [pending |-> FALSE, key |-> <<>>, failed |-> fails]
  /\ UNCHANGED <<importState, sql, d1>>
  /\ UNCHANGED <<variant, csv, serverVars, req, lookups>>

\* the response has been written out ('finish') and the client holds it;
\* the handler invocation and its locals are gone
ResponseDone ==
  /\ req # NoRequest
  /\ resp # NoResponse
  /\ pc = "running"
  /\ req' = NoRequest
  /\ resp' = NoResponse
  /\ lookups' = 0
  /\ query' = NoQuery
  /\ UNCHANGED <<importState, sql, d1>>
  /\ UNCHANGED <<variant, csv, serverVars>>

\* ------------------------------------------------------------------------
\* Specification
\* ------------------------------------------------------------------------
Next ==
  \/ Start
  \/ LoadData
  \/ LoadEnd
  \/ LoadError
  \/ ReadError
  \/ Signal
  \/ CloseCallback
  \/ ForceTimeout
  \/ Connect
  \/ Disconnect
  \/ \E e \in Endpoints : ConnectRefused(e)
  \/ \E p \in RawInputs : GetPostcode(p)
  \/ GetReady
  \/ GetHealth
  \/ GetRoot
  \/ GetUnmatched
  \/ ConvertCsv
  \/ D1Execute
  \/ \E p \in RawInputs : EdgeGetPostcode(p)
  \/ \E f \in BOOLEAN : EdgeQueryDone(f)
  \/ ResponseDone

Spec == Init /\ [][Next]_vars

\* the event loop runs every callback that is due: the close callback once
\* the last connection has ended, the forced exit timer once it has expired
FairSpec ==
  /\ Spec
  /\ WF_vars(CloseCallback)
  /\ WF_vars(ForceTimeout)

\* ------------------------------------------------------------------------
\* Properties
\* ------------------------------------------------------------------------
\* ^[A-Z0-9]{5,8}$
CanonicalShape(k) ==
  /\ Len(k) \in 5..8
  /\ \A i \in 1..Len(k) : k[i] \in UpperChars \cup DigitChars

\* both checks of the public boundary pass for the raw input p
PassesChecks(p) ==
  /\ Len(p) \in 5..10
  /\ CanonicalShape(normalizePostcode(p))

\* a step in which a GET /postcode/:postcode request gets its response
PostcodeAnswered ==
  /\ resp = NoResponse
  /\ resp' # NoResponse
  /\ req'.endpoint = "/postcode"
  /\ resp' # Refused

\* the table the variant looks up, as display form and quintile per key
StoredDisplay(k) ==
  IF variant = "server" THEN postcodeData[k].postcode ELSE d1[k].postcode_display

StoredQuintile(k) ==
  IF variant = "server" THEN postcodeData[k].polar4 ELSE Num(d1[k].polar4)

StoredKeys == IF variant = "server" THEN DOMAIN postcodeData ELSE DOMAIN d1

QuintileDescription(q) ==
  IF q.kind # "undefined" /\ q.text \in QuintileKeys
  THEN POLAR_DESCRIPTIONS(q.text)
  ELSE "Unknown quintile"

\* the three outcomes of the claim for input p and response r
ThreeOutcomes(p, r) ==
  LET k == normalizePostcode(p)
  IN IF ~PassesChecks(p)
     THEN r.status = 400 /\ r.error = "Invalid postcode format"
     ELSE IF k \notin StoredKeys
     THEN r.status = 404 /\ r.error = "Postcode not found"
     ELSE /\ r.status = 200
          /\ r.postcode = StoredDisplay(k)
          /\ r.polar4 = StoredQuintile(k)
          /\ r.polar_description = QuintileDescription(StoredQuintile(k))

\* C1 (as stated): every GET /postcode/:postcode request, in either variant,
\* ends in exactly one of 400 (a check fails), 404 (checks pass, key absent)
\* or 200 with the stored display postcode, quintile and description.
C1_ThreeOutcomesOnly ==
  [][PostcodeAnswered => ThreeOutcomes(req'.postcode, resp')]_vars

\* C1 (amended): the three outcomes are the only ones unless the edge
\* variant's store query throws; then, and only then, the outcome is 500,
\* which happens only for an input that passed both checks.
C1_Outcomes ==
  [][PostcodeAnswered =>
       IF variant = "edge" /\ query'.failed
       THEN /\ resp'.status = 500
            /\ resp'.error = "Internal server error"
            /\ PassesChecks(req'.postcode)
       ELSE ThreeOutcomes(req'.postcode, resp')]_vars

\* C1 witness: a lowercase, spaced input answered 200 from a stored record
C1_Witness ==
  /\ req.endpoint = "/postcode"
  /\ req.postcode # normalizePostcode(req.postcode)
  /\ resp.status = 200
  /\ resp.polar_description # "Unknown quintile"

\* C2: a /postcode request whose input fails the raw-length or the shape
\* check never reads the lookup table and never issues a store query, in
\* either variant.
C2_NoLookupWhenInvalid ==
  (req.endpoint = "/postcode" /\ resp # Refused /\ ~PassesChecks(req.postcode))
    => /\ lookups = 0
       /\ ~query.pending
       /\ resp.status = 400

\* C2 witness: a rejected request that read nothing, its input long enough
\* to pass the raw-length check
C2_Witness ==
  /\ req.endpoint = "/postcode"
  /\ Len(req.postcode) \in 5..10
  /\ resp.status = 400
  /\ lookups = 0

\* C3 (as stated): once loaded, every record of the server's table has a
\* quintile in 1..5.
C3_QuintilesInRange ==
  isReady =>
    \A k \in DOMAIN postcodeData :
      /\ postcodeData[k].polar4.kind = "string"
      /\ postcodeData[k].polar4.text \in QuintileKeys

\* C4 (as stated): once loaded, every key of the server's table matches
\* ^[A-Z0-9]{5,8}$.
C4_KeysCanonical ==
  isReady => \A k \in DOMAIN postcodeData : CanonicalShape(k)

\* the rows of the source that carry a postcode, by index
AcceptedRows ==
  { i \in 1..Len(csv.rows) : Truthy(RowPostcode(csv.header, csv.rows[i])) }

RowKey(i) == normalizePostcode(RowPostcode(csv.header, csv.rows[i]).text)

LastRowOf(k) ==
  CHOOSE i \in AcceptedRows :
    /\ RowKey(i) = k
    /\ \A j \in AcceptedRows : RowKey(j) = k => j <= i

\* C5: the loaded table has exactly one record per canonical key of the
\* source, and it carries the display form and quintile of the last row of
\* the source with that key.
C5_LastRowWins ==
  isReady =>
    /\ DOMAIN postcodeData = { RowKey(i) : i \in AcceptedRows }
    /\ \A k \in DOMAIN postcodeData :
         /\ postcodeData[k].postcode =
              RowPostcode(csv.header, csv.rows[LastRowOf(k)]).text
         /\ postcodeData[k].polar4 = RowPolar4(csv.header, csv.rows[LastRowOf(k)])

\* C5 witness: two rows of the source share a key and differ in display form
\* and quintile, and the table is loaded
C5_Witness ==
  /\ isReady
  /\ \E i, j \in AcceptedRows :
       /\ i < j
       /\ RowKey(i) = RowKey(j)
       /\ csv.rows[i] # csv.rows[j]
       /\ postcodeData[RowKey(j)].postcode = csv.rows[j][1]

\* C6: whenever the server accepts requests the load has finished: the whole
\* stream was consumed and the installed table is the complete one; isReady
\* is true only then; no request was answered before.
C6_NoPartialServing ==
  /\ (isReady \/ server # "unset") =>
       /\ isReady
       /\ loadState = "loaded"
       /\ pos = Len(csv.rows)
       /\ postcodeData = LoadRows(EmptyTable, csv.header, csv.rows)
  /\ (variant = "server" /\ resp # NoResponse /\ resp # Refused) =>
       /\ isReady
       /\ ~req.loading

\* C6 witness: a request answered from a table built from at least two rows
C6_Witness ==
  /\ variant = "server"
  /\ server = "listening"
  /\ Len(csv.rows) >= 2
  /\ Cardinality(DOMAIN postcodeData) >= 2
  /\ resp.status = 200

LoadFailed == loadState \in {"rejected", "crashed"}

\* C7: after a load failure (missing file, read error, parser error) the
\* process has exited, never listened, never became ready and answered no
\* request; a rejected load exits with status 1.
C7_LoadFailureFatal ==
  LoadFailed =>
    /\ pc = "exited"
    /\ server = "unset"
    /\ ~isReady
    /\ postcodeData = EmptyTable
    /\ resp \in {NoResponse, Refused}
    /\ (loadState = "rejected" => exitCode = 1)

\* C7 witness: the parser failed after rows had been read
C7_Witness ==
  /\ loadState = "rejected"
  /\ pos >= 1
  /\ data # EmptyTable
  /\ pc = "exited"

\* C8 (as stated): a GET /ready made while the table is loading is answered
\* 503 'loading'; one made once it has loaded is answered 200.
C8_ReadyReportsLoading ==
  (variant = "server" /\ req.endpoint = "/ready" /\ resp # NoResponse) =>
    IF req.loading
    THEN resp.status = 503 /\ resp.message = "loading"
    ELSE resp.status = 200 /\ resp.message = "ready"

Readiness ==
  IF isReady THEN "Ready"
  ELSE IF LoadFailed THEN "Failed"
  ELSE "Loading"

\* C9: once the load has completed no step changes the table or clears
\* isReady; readiness moves only Loading -> Ready or Loading -> Failed.
C9_TableImmutable ==
  [][/\ isReady => (isReady' /\ postcodeData' = postcodeData)
     /\ Readiness' # Readiness =>
          (Readiness = "Loading" /\ Readiness' \in {"Ready", "Failed"})]_vars

\* C9 witness: a loaded server that answered a request, was signalled and
\* was forced down by the timer
C9_Witness ==
  /\ isReady
  /\ postcodeData # EmptyTable
  /\ resp.status = 200
  /\ server = "closing"
  /\ pc = "exited"
  /\ exitCode = 1

\* the worker's outcome for input p against table t when the query succeeds
EdgeOutcome(t, p) ==
  IF EdgeValidate(p) # NoResponse THEN EdgeValidate(p)
  ELSE EdgeRespond(t, normalizePostcode(p), p, FALSE)

\* status, postcode, quintile (by its text) and description agree
SameOutcome(a, b) ==
  /\ a.status = b.status
  /\ a.postcode = b.postcode
  /\ a.polar4.text = b.polar4.text
  /\ a.polar_description = b.polar_description

\* C10 (as stated): after the import of a CSV source, every raw request gets
\* the same outcome from the worker on the imported table as from the
\* server on the table its loader builds from the same source.
C10_VariantsEquivalent ==
  (variant = "edge" /\ importState = "imported") =>
    \A p \in RawInputs :
      SameOutcome(
        ServerLookup(LoadRows(EmptyTable, csv.header, csv.rows), p).resp,
        EdgeOutcome(d1, p))

\* C11: in the edge variant a request whose store query threw is answered
\* 500 with a body of success:false and a fixed error text, nothing of the
\* thrown error in it, after exactly one query: no request ever issues a
\* second query.
C11_BackendFaultOnce ==
  variant = "edge" =>
    /\ lookups <= 1
    /\ query.failed =>
         /\ resp.status = 500
         /\ resp.error = "Internal server error"
         /\ resp.error # DbErrorDetail
         /\ resp.message = ""
         /\ resp.postcode = <<>>
         /\ resp.searched = <<>>
         /\ resp.polar_description = ""
         /\ lookups = 1
         /\ ~query.pending

\* C11 witness: the query of a request for a stored key threw and the
\* request was answered 500
C11_Witness ==
  /\ variant = "edge"
  /\ importState = "imported"
  /\ normalizePostcode(req.postcode) \in DOMAIN d1
  /\ query.failed
  /\ resp.status = 500
  /\ lookups = 1

\* a signal handler has run: either it found no server and exited at once,
\* or it closed the server
Signalled == variant = "server" /\ server = "closing"

\* C12: in the server variant a termination signal, in whatever state it
\* arrives, ends the process: at once with exit code 0 when the server was
\* never started; otherwise the server is closed and the forced exit timer
\* armed, and the process then exits, with code 0 once no connection is
\* left or with code 1 when the timer fires, and in no other way.
C12_SignalTerminates ==
  /\ [][Signal =>
          IF server = "unset"
          THEN pc' = "exited" /\ exitCode' = 0
          ELSE server' = "closing" /\ forceTimer' /\ pc' = "running"]_vars
  /\ [][(Signalled /\ pc = "running" /\ pc' = "exited") =>
          \/ conns = 0 /\ exitCode' = 0
          \/ forceTimer /\ exitCode' = 1]_vars
  /\ [](Signalled => (pc = "exited" \/ forceTimer))
  /\ (Signalled ~> pc = "exited")

\* C12 witness: a signal closed a serving server, and the process exited
\* with code 0 after the connections ended
C12_Witness ==
  /\ variant = "server"
  /\ server = "closing"
  /\ isReady
  /\ pc = "exited"
  /\ exitCode = 0

====
